---------------------------- MODULE Spec2Model ----------------------------
(***************************************************************************)
(* Model of src/server.py: class Bridge, the WebSocket <-> GRBL bridge     *)
(* with byte-window flow control.                                          *)
(*                                                                         *)
(* The three asyncio tasks (ws_handler, serial_reader, serial_watchdog)    *)
(* are cooperative: one action of the model is the code that runs between  *)
(* two suspension points (an await that can yield).  ensure_serial holds   *)
(* no await that yields, so it is part of the action that calls it.        *)
(*                                                                         *)
(* The environment is the WebSocket peer (connects, sends frames, closes), *)
(* and the GRBL device behind the serial port (consumes the commands       *)
(* written to it in order and answers each with one response line, emits   *)
(* unsolicited report lines, can be unplugged and plugged back).           *)
(***************************************************************************)
EXTENDS Naturals, Sequences, FiniteSets

(***************************************************************************)
(* Program constants (src/server.py lines 14-16).                          *)
(***************************************************************************)
GRBL_BUFFER_BYTES == 128
SAFETY_MARGIN == 4
MAX_PENDING == GRBL_BUFFER_BYTES - SAFETY_MARGIN

(***************************************************************************)
(* Bounds of the model.  MaxEvents caps the number of environment inputs   *)
(* of one behaviour: connection attempts, client frames, unsolicited       *)
(* device lines, unplug events, and reads that find only a part of what    *)
(* the device has sent.                                                    *)
(***************************************************************************)
MaxEvents == 4

\* The number of environment events in the behaviours checked for liveness.
MaxLiveEvents == 3

\* The longest byte stream fed to the line assembler in FramerSpec.
MaxStream == 5

(***************************************************************************)
(* Client frames.  A frame is abstracted to its length n in bytes and      *)
(* whether its last byte is LF; the window logic reads nothing else.       *)
(***************************************************************************)
Frames ==
    { [n |-> 61,  lf |-> TRUE ],
      [n |-> 61,  lf |-> FALSE],
      [n |-> 123, lf |-> TRUE ] }

NoFrame == [n |-> 0, lf |-> FALSE]

(***************************************************************************)
(* Bytes of the serial stream.  A byte travels with the id of the command  *)
(* whose response it belongs to (0: unsolicited); the program reads only   *)
(* the field b.                                                            *)
(***************************************************************************)
LF == "LF"
CR == "CR"

Tag(bs, c) == [i \in 1..Len(bs) |-> [b |-> bs[i], cmd |-> c]]

Bytes(line) == [i \in 1..Len(line) |-> line[i].b]

OkResponse == <<"o", "k", CR, LF>>
ErrorResponse == <<"e", "r", "r", CR, LF>>

Responses == {OkResponse, ErrorResponse}

\* Unsolicited output: a status report, a capitalised look-alike, an empty line.
Reports == { <<"<", CR, LF>>, <<"O", "k", CR, LF>>, <<LF>> }

VARIABLES
    serial,      \* self.serial: "None" or "Open" (a handle with is_open)
    client,      \* self.client: 0 (None) or the id of the installed websocket
    pending,     \* self.pending: lengths written and not yet acknowledged
    recv_buf,    \* self.recv_buf: the line assembler
    hpc,         \* where the installed ws_handler is suspended
    raw,         \* the handler's local raw (the normalized frame), or NoFrame
    rpc,         \* where serial_reader is suspended
    wsOpen,      \* the installed websocket's peer is still connected
    devAvail,    \* the device can be opened
    linkOk,      \* I/O on the handle held in serial works
    fw,          \* commands in the firmware's receive buffer, oldest first
    wire,        \* bytes the device has sent and the host has not read
    pendingCmd,  \* history: the command id of each entry of pending
    rawId,       \* history: the id of the frame held in raw
    nconn,       \* history: connection attempts so far
    nframes,     \* history: frames received from clients so far
    sessN,       \* history: frames received in the current session
    events,      \* history: environment inputs so far
    rxlog,       \* history: frames received, in order
    txlog,       \* history: commands written to the device, in order
    dropped,     \* history: ids of the frames dropped for want of a link
    lost,        \* history: ids of the frames whose write raised
    fed,         \* history (FramerSpec): the bytes read so far
    got,         \* history (FramerSpec): the lines extracted so far
    ev           \* history: what the last step did

vars == << serial, client, pending, recv_buf, hpc, raw, rpc, wsOpen, devAvail,
           linkOk, fw, wire, pendingCmd, rawId, nconn, nframes, sessN, events,
           rxlog, txlog, dropped, lost, fed, got, ev >>

Event(k) == [kind |-> k, conn |-> 0, code |-> 0, id |-> 0, lines |-> <<>>]

RECURSIVE Sum(_)
Sum(s) == IF s = <<>> THEN 0 ELSE Head(s) + Sum(Tail(s))

SumLen(s) == Sum([i \in 1..Len(s) |-> s[i].len])

Init ==
    /\ serial = "None"
    /\ client = 0
    /\ pending = <<>>
    /\ recv_buf = <<>>
    /\ hpc = "none"
    /\ raw = NoFrame
    /\ rpc = "top"
    /\ wsOpen = FALSE
    /\ devAvail \in BOOLEAN
    /\ linkOk = FALSE
    /\ fw = <<>>
    /\ wire = <<>>
    /\ pendingCmd = <<>>
    /\ rawId = 0
    /\ nconn = 0
    /\ nframes = 0
    /\ sessN = 0
    /\ events = 0
    /\ rxlog = <<>>
    /\ txlog = <<>>
    /\ dropped = {}
    /\ lost = {}
    /\ fed = <<>>
    /\ got = <<>>
    /\ ev = Event("init")


(***************************************************************************)
(* ws_handler, lines 94-96: a frame that does not end in LF gets one.      *)
(***************************************************************************)
NormalizeNever(f) == f

Normalize(f) == IF f.lf THEN f ELSE [n |-> f.n + 1, lf |-> TRUE]

(***************************************************************************)
(* ws_handler, line 104: the admission loop is left (or never entered)     *)
(* when its condition sum(self.pending) + len(raw) >= MAX_PENDING is       *)
(* false.                                                                  *)
(***************************************************************************)
HasRoomInclusive(p, r) == ~(Sum(p) + r.n > MAX_PENDING)

HasRoom(p, r) == ~(Sum(p) + r.n >= MAX_PENDING)

(***************************************************************************)
(* serial_write, line 76, and serial_reader, line 146, on the deque.       *)
(***************************************************************************)
PushRight(q, x) == Append(q, x)

PopRight(q) == SubSeq(q, 1, Len(q) - 1)

PopNothing(q) == q

PopLeft(q) == Tail(q)

(***************************************************************************)
(* serial_reader, line 145: line.startswith(b"ok").                        *)
(***************************************************************************)
EqualsOk(line) == Bytes(line) = <<"o", "k">>

StartsWithOkOrError(line) ==
    /\ Len(line) >= 1
    /\ \/ line[1].b = "e"
       \/ Len(line) >= 2 /\ line[1].b = "o" /\ line[2].b = "k"

StartsWithOk(line) ==
    /\ Len(line) >= 2
    /\ line[1].b = "o"
    /\ line[2].b = "k"

(***************************************************************************)
(* ensure_serial, lines 49-71, as the values it leaves: ok is its result.  *)
(* An open handle is returned as it is.  Otherwise the device is opened,   *)
(* which succeeds when it is available; reset_input_buffer then discards   *)
(* the unread input.  self.recv_buf is not touched.                        *)
(***************************************************************************)
EnsureSerialGivesUp ==
    [ok |-> serial = "Open", serial |-> serial, linkOk |-> linkOk, wire |-> wire]

EnsureSerial ==
    IF serial = "Open"
    THEN [ok |-> TRUE, serial |-> "Open", linkOk |-> linkOk, wire |-> wire]
    ELSE IF devAvail
         THEN [ok |-> TRUE, serial |-> "Open", linkOk |-> TRUE, wire |-> <<>>]
         ELSE [ok |-> FALSE, serial |-> "None", linkOk |-> FALSE, wire |-> wire]

\* The link as it stands, for code that runs without calling ensure_serial.
LinkAsIs == [ok |-> serial = "Open", serial |-> serial, linkOk |-> linkOk, wire |-> wire]

(***************************************************************************)
(* ws_handler, lines 115-119: the finally block.  Returning from the       *)
(* handler closes the websocket.                                           *)
(***************************************************************************)
FinallyKeepsPending ==
    /\ client' = 0
    /\ UNCHANGED <<pending, pendingCmd>>
    /\ hpc' = "none"
    /\ raw' = NoFrame
    /\ rawId' = 0
    /\ wsOpen' = FALSE

Finally ==
    /\ client' = 0
    /\ pending' = <<>>
    /\ pendingCmd' = <<>>
    /\ hpc' = "none"
    /\ raw' = NoFrame
    /\ rawId' = 0
    /\ wsOpen' = FALSE

(***************************************************************************)
(* ws_handler, lines 79-87: a connection attempt.  With a client installed *)
(* the new websocket is closed with code 1000 and the handler returns;     *)
(* otherwise it is installed and the handler waits for its first frame.    *)
(***************************************************************************)
AcceptLast(c) ==
    /\ client' = c
    /\ hpc' = "recv"
    /\ wsOpen' = TRUE
    /\ sessN' = 0
    /\ ev' = [Event("accept") EXCEPT !.conn = c]

Accept(c) ==
    IF client # 0
    THEN /\ ev' = [Event("reject") EXCEPT !.conn = c, !.code = 1000]
         /\ UNCHANGED <<client, hpc, wsOpen, sessN>>
    ELSE /\ client' = c
         /\ hpc' = "recv"
         /\ wsOpen' = TRUE
         /\ sessN' = 0
         /\ ev' = [Event("accept") EXCEPT !.conn = c]

Connect ==
    /\ UNCHANGED <<fed, got>>
    /\ events < MaxEvents
    /\ events' = events + 1
    /\ nconn' = nconn + 1
    /\ Accept(nconn + 1)
    /\ UNCHANGED <<serial, pending, recv_buf, raw, rpc, devAvail, linkOk, fw,
                   wire, pendingCmd, rawId, nframes, rxlog, txlog, dropped, lost>>

(***************************************************************************)
(* ws_handler, lines 103-109, from the test of the admission loop on, for  *)
(* the frame r with id, with the link as es: the handler suspends in       *)
(* sleep(0) while there is no room; with room it calls serial_write        *)
(* (lines 75-76), and an exception of the write (no handle, or a handle    *)
(* whose device is gone) ends the handler through the finally block.       *)
(***************************************************************************)
WriteOrWait(es, r, id) ==
    /\ serial' = es.serial
    /\ linkOk' = es.linkOk
    /\ wire' = es.wire
    /\ IF ~HasRoom(pending, r)
       THEN /\ hpc' = "wait"
            /\ raw' = r
            /\ rawId' = id
            /\ ev' = [Event("wait") EXCEPT !.conn = client, !.id = id]
            /\ UNCHANGED <<client, pending, pendingCmd, wsOpen, fw, txlog, lost>>
       ELSE IF es.serial = "Open" /\ es.linkOk
            THEN /\ fw' = Append(fw, [id |-> id, len |-> r.n, conn |-> client])
                 /\ pending' = PushRight(pending, r.n)
                 /\ pendingCmd' = PushRight(pendingCmd, id)
                 /\ txlog' = Append(txlog, [id |-> id, len |-> r.n, conn |-> client])
                 /\ hpc' = "recv"
                 /\ raw' = NoFrame
                 /\ rawId' = 0
                 /\ ev' = [Event("write") EXCEPT !.conn = client, !.id = id]
                 /\ UNCHANGED <<client, wsOpen, lost>>
            ELSE /\ Finally
                 /\ lost' = lost \cup {id}
                 /\ ev' = [Event("write_error") EXCEPT !.conn = client, !.id = id]
                 /\ UNCHANGED <<fw, txlog>>

(***************************************************************************)
(* ws_handler, lines 90-109: the next frame of the installed client        *)
(* arrives.  It is normalized, ensure_serial is called, and without a link *)
(* the handler goes on to send the error frame (line 100).                 *)
(***************************************************************************)
HandlerRecv ==
    /\ UNCHANGED <<fed, got>>
    /\ hpc = "recv"
    /\ wsOpen
    /\ events < MaxEvents
    /\ \E f \in Frames :
          LET r == Normalize(f)
              id == nframes + 1
              es == EnsureSerial
          IN /\ events' = events + 1
             /\ nframes' = id
             /\ sessN' = sessN + 1
             /\ rxlog' = Append(rxlog, [id |-> id, frame |-> f, conn |-> client])
             /\ IF es.ok
                THEN /\ WriteOrWait(es, r, id)
                     /\ UNCHANGED dropped
                ELSE /\ serial' = es.serial
                     /\ linkOk' = es.linkOk
                     /\ wire' = es.wire
                     /\ hpc' = "send_err"
                     /\ raw' = r
                     /\ rawId' = id
                     /\ dropped' = dropped \cup {id}
                     /\ ev' = [Event("nolink") EXCEPT !.conn = client, !.id = id]
                     /\ UNCHANGED <<client, pending, pendingCmd, wsOpen, fw, txlog,
                                    lost>>
    /\ UNCHANGED <<recv_buf, rpc, devAvail, nconn>>

(***************************************************************************)
(* ws_handler, lines 100-101: the send of the error frame, then continue.  *)
(* A send on a closed websocket raises, which ends the handler.            *)
(***************************************************************************)
HandlerSendErrorNoContinue ==
    /\ UNCHANGED <<fed, got>>
    /\ hpc = "send_err"
    /\ IF wsOpen
       THEN /\ WriteOrWait(LinkAsIs, raw, rawId)
            /\ UNCHANGED <<recv_buf, rpc, devAvail, nconn, nframes, sessN,
                           events, rxlog, dropped>>
       ELSE /\ Finally
            /\ ev' = [Event("disconnect") EXCEPT !.conn = client]
            /\ UNCHANGED <<serial, recv_buf, rpc, devAvail, linkOk, fw, wire,
                           nconn, nframes, sessN, events, rxlog, txlog, dropped,
                           lost>>

HandlerSendError ==
    /\ UNCHANGED <<fed, got>>
    /\ hpc = "send_err"
    /\ IF wsOpen
       THEN /\ hpc' = "recv"
            /\ raw' = NoFrame
            /\ rawId' = 0
            /\ ev' = [Event("error_frame") EXCEPT !.conn = client, !.id = rawId]
            /\ UNCHANGED <<client, pending, pendingCmd, wsOpen>>
       ELSE /\ Finally
            /\ ev' = [Event("disconnect") EXCEPT !.conn = client]
    /\ UNCHANGED <<serial, recv_buf, rpc, devAvail, linkOk, fw, wire, nconn,
                   nframes, sessN, events, rxlog, txlog, dropped, lost>>

(***************************************************************************)
(* ws_handler, lines 104-107: the handler resumes from sleep(0) and tests  *)
(* the loop condition again.  ensure_serial is not called again.           *)
(***************************************************************************)
HandlerWait ==
    /\ UNCHANGED <<fed, got>>
    /\ hpc = "wait"
    /\ WriteOrWait(LinkAsIs, raw, rawId)
    /\ UNCHANGED <<recv_buf, rpc, devAvail, nconn, nframes, sessN, events,
                   rxlog, dropped>>

(***************************************************************************)
(* ws_handler, lines 90 and 111-119: the iteration over the websocket ends *)
(* because the peer is gone.                                               *)
(***************************************************************************)
HandlerClosed ==
    /\ UNCHANGED <<fed, got>>
    /\ hpc = "recv"
    /\ ~wsOpen
    /\ Finally
    /\ ev' = [Event("disconnect") EXCEPT !.conn = client]
    /\ UNCHANGED <<serial, recv_buf, rpc, devAvail, linkOk, fw, wire, nconn,
                   nframes, sessN, events, rxlog, txlog, dropped, lost>>

\* The peer of the installed websocket goes away.
ClientClose ==
    /\ UNCHANGED <<fed, got>>
    /\ client # 0
    /\ wsOpen
    /\ wsOpen' = FALSE
    /\ ev' = Event("other")
    /\ UNCHANGED <<serial, client, pending, recv_buf, hpc, raw, rpc, devAvail,
                   linkOk, fw, wire, pendingCmd, rawId, nconn, nframes, sessN,
                   events, rxlog, txlog, dropped, lost>>


(***************************************************************************)
(* serial_reader, lines 136-151: the extraction loop, run from the state   *)
(* st until it suspends in the send to the client (line 151) or no LF is   *)
(* left in the buffer.  Each non-empty line pops the front of pending when *)
(* it starts with "ok" and pending is not empty, and is sent, LF appended, *)
(* to the client if one is installed; a failed send is suppressed.  lines  *)
(* records what was done with each line.                                   *)
(***************************************************************************)
HasLF(buf) == \E i \in 1..Len(buf) : buf[i].b = LF

LastLF(buf) == CHOOSE i \in 1..Len(buf) :
                   /\ buf[i].b = LF
                   /\ \A j \in (i + 1)..Len(buf) : buf[j].b # LF

FirstLF(buf) == CHOOSE i \in 1..Len(buf) :
                    /\ buf[i].b = LF
                    /\ \A j \in 1..(i - 1) : buf[j].b # LF

\* Line 151: what reaches the client, <<>> when the send raises (peer gone).
SendWithoutLF(line) == IF client # 0 /\ wsOpen THEN Bytes(line) ELSE <<>>

SendToClient(line) == IF client # 0 /\ wsOpen THEN Bytes(line) \o <<LF>> ELSE <<>>

RECURSIVE ExtractLoop(_)
ExtractBody(st) ==
    IF ~HasLF(st.buf)
    THEN st
    ELSE LET i == FirstLF(st.buf)
             line == SubSeq(st.buf, 1, i - 1)
             rest == SubSeq(st.buf, i + 1, Len(st.buf))
         IN IF line = <<>>
            THEN ExtractLoop([st EXCEPT !.buf = rest])
            ELSE LET pop == StartsWithOk(line) /\ st.pending # <<>>
                     rec == [ line |-> line,
                              pop |-> pop,
                              before |-> st.pending,
                              after |-> IF pop THEN PopLeft(st.pending) ELSE st.pending,
                              entry |-> IF pop THEN Head(st.pendingCmd) ELSE 0,
                              to |-> client,
                              sent |-> SendToClient(line) ]
                     st2 == [ buf |-> rest,
                              pending |-> rec.after,
                              pendingCmd |-> IF pop THEN PopLeft(st.pendingCmd)
                                             ELSE st.pendingCmd,
                              lines |-> Append(st.lines, rec),
                              suspended |-> client # 0 ]
                 IN IF client # 0 THEN st2 ELSE ExtractLoop(st2)

\* The loop state is bound to its value, so that each iteration is computed
\* once from the state the previous one left.
ExtractLoop(from) == CHOOSE out \in {ExtractBody(st) : st \in {from}} : TRUE

ExtractFrom(buf) ==
    ExtractLoop([ buf |-> buf, pending |-> pending, pendingCmd |-> pendingCmd,
                  lines |-> <<>>, suspended |-> FALSE ])

Extracted(x) ==
    /\ recv_buf' = x.buf
    /\ pending' = x.pending
    /\ pendingCmd' = x.pendingCmd
    /\ rpc' = IF x.suspended THEN "send" ELSE "top"
    /\ ev' = [Event("read") EXCEPT !.conn = client, !.lines = x.lines]

(***************************************************************************)
(* serial_reader, lines 124-159: one iteration from the top of the loop to *)
(* its next suspension.  Without a link it sleeps and retries.  An I/O     *)
(* error of the read closes the handle and sets self.serial to None.       *)
(* Otherwise the bytes that have arrived (a prefix of what the device has  *)
(* sent) are appended to recv_buf and the extraction loop runs.            *)
(***************************************************************************)
ReaderTop ==
    /\ UNCHANGED <<fed, got>>
    /\ rpc = "top"
    /\ LET es == EnsureSerial
       IN IF ~es.ok
          THEN /\ serial' = es.serial
               /\ linkOk' = es.linkOk
               /\ wire' = es.wire
               /\ ev' = Event("other")
               /\ UNCHANGED <<recv_buf, pending, pendingCmd, rpc, events>>
          ELSE IF ~es.linkOk
               THEN /\ serial' = "None"
                    /\ linkOk' = FALSE
                    /\ wire' = es.wire
                    /\ ev' = Event("read_error")
                    /\ UNCHANGED <<recv_buf, pending, pendingCmd, rpc, events>>
               ELSE \E k \in 0..Len(es.wire) :
                       /\ k < Len(es.wire) => events < MaxEvents
                       /\ events' = IF k < Len(es.wire) THEN events + 1 ELSE events
                       /\ serial' = es.serial
                       /\ linkOk' = es.linkOk
                       /\ wire' = SubSeq(es.wire, k + 1, Len(es.wire))
                       /\ Extracted(ExtractFrom(recv_buf \o SubSeq(es.wire, 1, k)))
    /\ UNCHANGED <<client, hpc, raw, wsOpen, devAvail, fw, rawId, nconn,
                   nframes, sessN, rxlog, txlog, dropped, lost>>

(***************************************************************************)
(* serial_reader, lines 151 and 136-159: the send has returned and the     *)
(* extraction loop goes on with what is left in recv_buf.                  *)
(***************************************************************************)
ReaderResume ==
    /\ UNCHANGED <<fed, got>>
    /\ rpc = "send"
    /\ Extracted(ExtractFrom(recv_buf))
    /\ UNCHANGED <<serial, client, hpc, raw, wsOpen, devAvail, linkOk, fw,
                   wire, rawId, nconn, nframes, sessN, events, rxlog, txlog,
                   dropped, lost>>

(***************************************************************************)
(* serial_watchdog, lines 162-167: one call of ensure_serial.              *)
(***************************************************************************)
Watchdog ==
    /\ UNCHANGED <<fed, got>>
    /\ LET es == EnsureSerial
       IN /\ serial' = es.serial
          /\ linkOk' = es.linkOk
          /\ wire' = es.wire
    /\ ev' = Event("other")
    /\ UNCHANGED <<client, pending, recv_buf, hpc, raw, rpc, wsOpen, devAvail,
                   fw, pendingCmd, rawId, nconn, nframes, sessN, events, rxlog,
                   txlog, dropped, lost>>

(***************************************************************************)
(* The device.  The firmware takes the oldest command out of its receive   *)
(* buffer and answers it with one response line; it also sends unsolicited *)
(* lines.  Unplugging powers the device off: its buffer and the unread     *)
(* bytes are lost and I/O on the handle fails from then on.                *)
(***************************************************************************)
FwConsume ==
    /\ UNCHANGED <<fed, got>>
    /\ fw # <<>>
    /\ linkOk
    /\ \E resp \in Responses :
          /\ wire' = wire \o Tag(resp, Head(fw).id)
          /\ ev' = Event("other")
    /\ fw' = Tail(fw)
    /\ UNCHANGED <<serial, client, pending, recv_buf, hpc, raw, rpc, wsOpen,
                   devAvail, linkOk, pendingCmd, rawId, nconn, nframes, sessN,
                   events, rxlog, txlog, dropped, lost>>

DevEmit ==
    /\ UNCHANGED <<fed, got>>
    /\ serial = "Open"
    /\ linkOk
    /\ events < MaxEvents
    /\ events' = events + 1
    /\ \E rep \in Reports : wire' = wire \o Tag(rep, 0)
    /\ ev' = Event("other")
    /\ UNCHANGED <<serial, client, pending, recv_buf, hpc, raw, rpc, wsOpen,
                   devAvail, linkOk, fw, pendingCmd, rawId, nconn, nframes,
                   sessN, rxlog, txlog, dropped, lost>>

Unplug ==
    /\ UNCHANGED <<fed, got>>
    /\ devAvail
    /\ events < MaxEvents
    /\ events' = events + 1
    /\ devAvail' = FALSE
    /\ linkOk' = FALSE
    /\ fw' = <<>>
    /\ wire' = <<>>
    /\ ev' = Event("other")
    /\ UNCHANGED <<serial, client, pending, recv_buf, hpc, raw, rpc, wsOpen,
                   pendingCmd, rawId, nconn, nframes, sessN, rxlog, txlog,
                   dropped, lost>>

Plug ==
    /\ UNCHANGED <<fed, got>>
    /\ ~devAvail
    /\ devAvail' = TRUE
    /\ ev' = Event("other")
    /\ UNCHANGED <<serial, client, pending, recv_buf, hpc, raw, rpc, wsOpen,
                   linkOk, fw, wire, pendingCmd, rawId, nconn, nframes, sessN,
                   events, rxlog, txlog, dropped, lost>>

(***************************************************************************)
(* The line assembler alone (serial_reader, lines 131-139, no client       *)
(* installed): a byte stream, drawn from all streams of up to MaxStream    *)
(* bytes, arrives in successive reads of any sizes.                        *)
(***************************************************************************)
FramerBytes == {"a", "b", LF}

RECURSIVE Streams(_)
Streams(n) ==
    IF n = 0 THEN {<<>>}
    ELSE LET shorter == Streams(n - 1)
         IN shorter \cup {Append(t, x) : t \in shorter, x \in FramerBytes}

FramerInit ==
    /\ serial = "Open"
    /\ client = 0
    /\ pending = <<>>
    /\ recv_buf = <<>>
    /\ hpc = "none"
    /\ raw = NoFrame
    /\ rpc = "top"
    /\ wsOpen = FALSE
    /\ devAvail = TRUE
    /\ linkOk = TRUE
    /\ fw = <<>>
    /\ wire \in {Tag(t, 0) : t \in Streams(MaxStream)}
    /\ pendingCmd = <<>>
    /\ rawId = 0
    /\ nconn = 0
    /\ nframes = 0
    /\ sessN = 0
    /\ events = 0
    /\ rxlog = <<>>
    /\ txlog = <<>>
    /\ dropped = {}
    /\ lost = {}
    /\ fed = <<>>
    /\ got = <<>>
    /\ ev = Event("init")

FramerFeed ==
    /\ rpc = "top"
    /\ \E k \in 1..Len(wire) :
          LET x == ExtractFrom(recv_buf \o SubSeq(wire, 1, k))
          IN /\ wire' = SubSeq(wire, k + 1, Len(wire))
             /\ fed' = fed \o SubSeq(wire, 1, k)
             /\ got' = got \o [i \in 1..Len(x.lines) |-> x.lines[i].line]
             /\ Extracted(x)
    /\ events' = events + 1
    /\ UNCHANGED <<serial, client, hpc, raw, wsOpen, devAvail, linkOk, fw, rawId,
                   nconn, nframes, sessN, rxlog, txlog, dropped, lost>>

FramerSpec == FramerInit /\ [][FramerFeed]_vars

Next ==
    \/ Connect
    \/ HandlerRecv
    \/ HandlerSendError
    \/ HandlerWait
    \/ HandlerClosed
    \/ ClientClose
    \/ ReaderTop
    \/ ReaderResume
    \/ Watchdog
    \/ FwConsume
    \/ DevEmit
    \/ Unplug
    \/ Plug

Spec == Init /\ [][Next]_vars

(***************************************************************************)
(* The same program under the scheduling of the asyncio event loop: a task *)
(* that can run is run (the reader and the handler yield with sleep(0) or  *)
(* an await, the watchdog with a timed sleep), and the firmware goes on    *)
(* executing what is in its buffer while the device is powered.            *)
(***************************************************************************)
Handler == HandlerSendError \/ HandlerWait \/ HandlerClosed
Reader == ReaderTop \/ ReaderResume

Fairness ==
    /\ WF_vars(Handler)
    /\ WF_vars(Reader)
    /\ WF_vars(Watchdog)
    /\ WF_vars(FwConsume)

\* Liveness is checked on the behaviours with at most MaxLiveEvents
\* environment events.
LiveBudget == events' <= MaxLiveEvents

LiveNext ==
    \/ Connect /\ LiveBudget
    \/ HandlerRecv /\ LiveBudget
    \/ HandlerSendError
    \/ HandlerWait
    \/ HandlerClosed
    \/ ClientClose
    \/ ReaderTop /\ LiveBudget
    \/ ReaderResume
    \/ Watchdog
    \/ FwConsume
    \/ DevEmit /\ LiveBudget
    \/ Unplug /\ LiveBudget
    \/ Plug

FairSpec == Init /\ [][LiveNext]_vars /\ Fairness

(***************************************************************************)
(* The program in steady operation: the device is present from the start   *)
(* and stays, so the link stays open once it is opened; the peer of the    *)
(* client never goes away; and the firmware answers every command it       *)
(* executes with an "ok" line.  The handler resuming from sleep(0), the    *)
(* reader and the firmware are scheduled fairly.                           *)
(***************************************************************************)
SteadyInit == Init /\ devAvail

FwAnswerOk == FwConsume /\ wire' = wire \o Tag(OkResponse, Head(fw).id)

SteadyNext ==
    \/ Connect
    \/ HandlerRecv
    \/ HandlerWait
    \/ ReaderTop
    \/ ReaderResume
    \/ Watchdog
    \/ FwAnswerOk
    \/ DevEmit

SteadySpec ==
    /\ SteadyInit
    /\ [][SteadyNext]_vars
    /\ WF_vars(HandlerWait)
    /\ WF_vars(Reader)
    /\ WF_vars(FwAnswerOk)


(***************************************************************************)
(*                              Properties                                 *)
(***************************************************************************)

\* What the last step was.
FrameStep == nframes' = nframes + 1
ConnectStep == nconn' = nconn + 1
ReadStep == ev'.kind = "read"

\* The first two bytes of a line are "ok".
OkPrefix(line) ==
    /\ Len(line) >= 2
    /\ SubSeq(Bytes(line), 1, 2) = <<"o", "k">>

\* The line begins with the error marker.
ErrorPrefix(line) == Len(line) >= 1 /\ line[1].b = "e"

\* The number of lines of ls that begin with "ok".
RECURSIVE OkCount(_)
OkCount(ls) ==
    IF ls = <<>> THEN 0
    ELSE (IF OkPrefix(Head(ls).line) THEN 1 ELSE 0) + OkCount(Tail(ls))

Min(a, b) == IF a < b THEN a ELSE b

\* The length of a frame once it ends in LF.
WrittenLen(f) == IF f.lf THEN f.n ELSE f.n + 1

(***************************************************************************)
(* C1: window capacity invariant.  In every reachable state the sum of the *)
(* lengths in the pending window is strictly below MAX_PENDING = 124, and  *)
(* a write has put the command's length at the back of the window, so the  *)
(* sum of the window before the write plus that length is below capacity.  *)
(***************************************************************************)
WindowBelowCapacity ==
    /\ MAX_PENDING = 124
    /\ Sum(pending) < MAX_PENDING
    /\ ev.kind = "write" =>
          /\ pending # <<>>
          /\ pending[Len(pending)] = txlog[Len(txlog)].len
          /\ Sum(SubSeq(pending, 1, Len(pending) - 1)) + txlog[Len(txlog)].len
                < MAX_PENDING

\* A write that fills the window to one byte below capacity.
WindowFilledToLimit ==
    /\ ev.kind = "write"
    /\ Len(pending) = 2
    /\ Sum(pending) = MAX_PENDING - 1

(***************************************************************************)
(* C2: the firmware buffer is never overflowed.  The total length of the   *)
(* commands written to the device and not yet consumed by the firmware     *)
(* never exceeds GRBL_BUFFER_BYTES = 128.                                  *)
(***************************************************************************)
FirmwareBufferNeverOverflowed == SumLen(fw) <= GRBL_BUFFER_BYTES

(***************************************************************************)
(* C3: FIFO acknowledgment.  A reader step that extracts m lines beginning *)
(* with "ok" removes the min(m, Len(pending)) oldest entries of the window *)
(* and nothing else: each acknowledgment pops the front entry, and one     *)
(* that finds the window empty leaves it empty.  No other step of the      *)
(* reader changes the window.                                              *)
(***************************************************************************)
FifoAcknowledgment ==
    [][ReadStep =>
          LET m == Min(OkCount(ev'.lines), Len(pending))
          IN /\ pending' = SubSeq(pending, m + 1, Len(pending))
             /\ pendingCmd' = SubSeq(pendingCmd, m + 1, Len(pendingCmd))
             /\ \A i \in 1..Len(ev'.lines) :
                   LET rec == ev'.lines[i]
                   IN /\ rec.pop => rec.after = Tail(rec.before)
                      /\ rec.before = <<>> => rec.after = <<>>]_vars

\* An acknowledgment popped the older of two pending entries of different length.
OldestOfTwoPopped ==
    /\ ev.kind = "read"
    /\ \E i \in 1..Len(ev.lines) :
          /\ ev.lines[i].pop
          /\ Len(ev.lines[i].before) = 2
          /\ ev.lines[i].before[1] # ev.lines[i].before[2]
          /\ ev.lines[i].after = <<ev.lines[i].before[2]>>

(***************************************************************************)
(* C4: single session.  A connection attempt made while a client is        *)
(* installed is closed with code 1000 and changes neither the installed    *)
(* client nor its handler nor the pending window; a handler is running     *)
(* exactly when a client is installed.                                     *)
(***************************************************************************)
SingleSession ==
    /\ [](client # 0 <=> hpc # "none")
    /\ [][ConnectStep /\ client # 0 =>
             /\ ev' = [Event("reject") EXCEPT !.conn = nconn + 1, !.code = 1000]
             /\ UNCHANGED <<client, hpc, raw, rawId, wsOpen, pending, pendingCmd,
                            sessN, fw, txlog>>]_vars

\* The first client writes a command after a second connection was turned away.
FirstClientWritesAfterReject ==
    /\ nconn >= 2
    /\ client = 1
    /\ ev.kind = "write"
    /\ ev.conn = 1

(***************************************************************************)
(* C5: disconnect resets the window.  The step that processes the          *)
(* disconnect of the installed client leaves no client installed and the   *)
(* pending window empty; and the first frame of a session, when its        *)
(* normalized length is below capacity and the link is open and working,   *)
(* is written in the step that receives it, without a wait.                *)
(***************************************************************************)
DisconnectResetsWindow ==
    /\ [][ev'.kind = "disconnect" =>
             /\ client' = 0
             /\ pending' = <<>>
             /\ Sum(pending') = 0]_vars
    /\ [][( /\ FrameStep
            /\ sessN = 0
            /\ WrittenLen(rxlog'[Len(rxlog')].frame) < MAX_PENDING
            /\ serial' = "Open"
            /\ linkOk' )
          => /\ ev'.kind = "write"
             /\ ev'.id = nframes']_vars

\* The first command of a second client is written while a command of the first
\* client, pending when that client left, is still in the firmware's buffer.
NextClientWritesAtOnce ==
    /\ ev.kind = "write"
    /\ sessN = 1
    /\ client = 2
    /\ Len(fw) = 2
    /\ fw[1].conn = 1
    /\ pending = <<fw[2].len>>


\* The client on whose behalf command id was written.
ConnOf(id) == (CHOOSE e \in {txlog[j] : j \in 1..Len(txlog)} : e.id = id).conn

TxIds == {txlog[j].id : j \in 1..Len(txlog)}

(***************************************************************************)
(* C6: acknowledgments never cross sessions.  The pending entry that an    *)
(* acknowledgment line pops belongs to a command of the same client as the *)
(* command the firmware answers with that line.                            *)
(***************************************************************************)
AcksNeverCrossSessions ==
    \A i \in 1..Len(ev.lines) :
        LET rec == ev.lines[i]
        IN (rec.pop /\ rec.line[1].cmd # 0)
              => ConnOf(rec.entry) = ConnOf(rec.line[1].cmd)

(***************************************************************************)
(* C7, as claimed: a line changes the window if and only if its content is *)
(* exactly the two bytes "ok" and the window is not empty.                 *)
(***************************************************************************)
AckOnlyOnExactOk ==
    \A i \in 1..Len(ev.lines) :
        LET rec == ev.lines[i]
        IN rec.after # rec.before
              <=> (Bytes(rec.line) = <<"o", "k">> /\ rec.before # <<>>)

(***************************************************************************)
(* C7, amended: a line pops one pending command if and only if its content *)
(* begins with the two bytes "ok" (lower case) and the window is not       *)
(* empty, whatever follows them; every other line leaves the window as it  *)
(* is.                                                                     *)
(***************************************************************************)
AckOnOkPrefix ==
    \A i \in 1..Len(ev.lines) :
        LET rec == ev.lines[i]
        IN /\ rec.after # rec.before
                 <=> (OkPrefix(rec.line) /\ rec.before # <<>>)
           /\ rec.after # rec.before => rec.after = Tail(rec.before)
           /\ rec.pop <=> rec.after # rec.before

\* The line "ok" followed by a carriage return popped an entry.
OkWithCarriageReturnPops ==
    \E i \in 1..Len(ev.lines) :
        /\ Bytes(ev.lines[i].line) = <<"o", "k", CR>>
        /\ ev.lines[i].after # ev.lines[i].before

(***************************************************************************)
(* C8: error lines are telemetry that acknowledges nothing.  A line that   *)
(* begins with the error marker leaves the window unchanged and is sent,   *)
(* LF appended, to the installed client like any other line; the window    *)
(* loses entries only to lines beginning with "ok" and to the end of a     *)
(* handler, which clears it.                                               *)
(***************************************************************************)
ErrorLinesDoNotAcknowledge ==
    [][/\ ReadStep =>
            \A i \in 1..Len(ev'.lines) :
                LET rec == ev'.lines[i]
                IN /\ ErrorPrefix(rec.line) => rec.after = rec.before
                   /\ rec.to = client
                   /\ (client # 0 /\ wsOpen) => rec.sent = Bytes(rec.line) \o <<LF>>
       /\ (ReadStep /\ OkCount(ev'.lines) = 0) => pending' = pending
       /\ Len(pending') < Len(pending) =>
             \/ ReadStep /\ OkCount(ev'.lines) > 0
             \/ ev'.kind \in {"disconnect", "write_error"} /\ client' = 0]_vars

\* An error line was forwarded to the client and the entry of the command that
\* drew it is still in the window.
ErrorLineLeavesEntry ==
    /\ ev.kind = "read"
    /\ \E i \in 1..Len(ev.lines) :
          /\ ErrorPrefix(ev.lines[i].line)
          /\ ev.lines[i].sent = Bytes(ev.lines[i].line) \o <<LF>>
          /\ ev.lines[i].before # <<>>
          /\ pendingCmd # <<>>
          /\ Head(pendingCmd) = ev.lines[i].line[1].cmd

(***************************************************************************)
(* C9: link unavailable.  A frame that arrives when the link is not open   *)
(* and cannot be opened is not written: the step leaves the window, the    *)
(* firmware and the session as they are and goes on to send the error      *)
(* frame; with the client still connected that send delivers one error     *)
(* frame for the frame and returns the handler to waiting for the next     *)
(* frame; and the dropped frame is never written later.                    *)
(***************************************************************************)
LinkUnavailableDropsLine ==
    /\ [](\A id \in dropped : id \notin TxIds /\ id \notin lost)
    /\ [][(FrameStep /\ serial # "Open" /\ ~devAvail) =>
             /\ ev' = [Event("nolink") EXCEPT !.conn = client, !.id = nframes']
             /\ hpc' = "send_err"
             /\ nframes' \in dropped'
             /\ UNCHANGED <<client, wsOpen, pending, pendingCmd, fw, txlog>>]_vars
    /\ [][(hpc = "send_err" /\ hpc' # "send_err" /\ wsOpen) =>
             /\ ev' = [Event("error_frame") EXCEPT !.conn = client, !.id = rawId]
             /\ rawId \in dropped
             /\ hpc' = "recv"
             /\ raw' = NoFrame
             /\ UNCHANGED <<client, wsOpen, pending, pendingCmd, fw, txlog>>]_vars

\* After a frame was dropped and the link came back, the same session writes a
\* later frame.
SessionWritesAfterDrop ==
    /\ ev.kind = "write"
    /\ ev.id - 1 \in dropped
    /\ rxlog[ev.id - 1].conn = client
    /\ TxIds = {ev.id}

(***************************************************************************)
(* C10: command ordering.  The commands written to the device are, in      *)
(* order, frames received from the same client, each normalized; no frame  *)
(* is written twice or out of order; a received frame that was not written *)
(* was dropped for want of a link, was lost to a failed write, or is the   *)
(* one the handler is holding; and a write leaves the window below         *)
(* capacity.                                                               *)
(***************************************************************************)
CommandOrdering ==
    /\ \A j \in 1..Len(txlog) :
          /\ txlog[j].id \in 1..Len(rxlog)
          /\ rxlog[txlog[j].id].id = txlog[j].id
          /\ rxlog[txlog[j].id].conn = txlog[j].conn
          /\ txlog[j].len = WrittenLen(rxlog[txlog[j].id].frame)
    /\ \A j, k \in 1..Len(txlog) : j < k => txlog[j].id < txlog[k].id
    /\ \A i \in 1..Len(rxlog) :
          /\ rxlog[i].id = i
          /\ i \in TxIds \/ i \in dropped \/ i \in lost \/ i = rawId
    /\ ev.kind = "write" => Sum(pending) < MAX_PENDING

\* Two frames of one client were written in order after an earlier one was dropped,
\* the second of them a frame that came without its LF.
TwoWrittenOneDropped ==
    /\ Len(txlog) = 2
    /\ dropped = {1}
    /\ txlog[1].conn = txlog[2].conn
    /\ rxlog[txlog[2].id].frame.lf = FALSE


\* The complete non-empty lines of a byte sequence and its unterminated tail,
\* found by one pass over the bytes.
RECURSIVE Scan(_, _, _)
Scan(buf, cur, out) ==
    IF buf = <<>> THEN [lines |-> out, tail |-> cur]
    ELSE IF Head(buf).b = LF
         THEN Scan(Tail(buf), <<>>, IF cur = <<>> THEN out ELSE Append(out, cur))
         ELSE Scan(Tail(buf), Append(cur, Head(buf)), out)

Segments(buf) == Scan(buf, <<>>, <<>>)

\* What a reader step works on: recv_buf and the bytes the step reads.
ReadInput ==
    recv_buf \o (IF serial = "Open"
                 THEN SubSeq(wire, 1, Len(wire) - Len(wire'))
                 ELSE <<>>)

(***************************************************************************)
(* C11: telemetry mirroring.  With a client installed, a reader step takes *)
(* the first complete non-empty line of what it holds and reads, sends it  *)
(* to that client with LF appended (when the peer is connected), whether   *)
(* or not it is an acknowledgment, and leaves the later lines and the      *)
(* unterminated tail in recv_buf in their order: no line is skipped, sent  *)
(* twice or reordered.  Without a client the lines are consumed unsent.    *)
(***************************************************************************)
TelemetryMirroring ==
    [][ReadStep =>
          LET sp == Segments(ReadInput)
              n == Len(ev'.lines)
              left == Segments(recv_buf')
          IN /\ n = IF client = 0 THEN Len(sp.lines) ELSE Min(1, Len(sp.lines))
             /\ \A i \in 1..n :
                   /\ ev'.lines[i].line = sp.lines[i]
                   /\ ev'.lines[i].to = client
                   /\ ev'.lines[i].sent =
                         IF client # 0 /\ wsOpen
                         THEN Bytes(sp.lines[i]) \o <<LF>> ELSE <<>>
             /\ left.lines = SubSeq(sp.lines, n + 1, Len(sp.lines))
             /\ left.tail = sp.tail]_vars

\* An acknowledgment line was sent to the client, popped an entry, and a later
\* line waits in recv_buf for the next step.
AckLineMirrored ==
    /\ ev.kind = "read"
    /\ client # 0
    /\ Len(ev.lines) = 1
    /\ ev.lines[1].pop
    /\ ev.lines[1].sent = <<"o", "k", CR, LF>>
    /\ Segments(recv_buf).lines # <<>>


(***************************************************************************)
(* C12: line reassembly is independent of chunking.  However the stream    *)
(* is cut into reads, the lines extracted so far are the complete          *)
(* non-empty LF-delimited segments of the bytes read so far, in order and  *)
(* without their LF, and the accumulator is their unterminated tail: it    *)
(* holds no LF and is empty when the last byte read was LF.                *)
(***************************************************************************)
LineReassembly ==
    /\ got = Segments(fed).lines
    /\ recv_buf = Segments(fed).tail
    /\ \A i \in 1..Len(recv_buf) : recv_buf[i].b # LF
    /\ (fed # <<>> /\ fed[Len(fed)].b = LF) => recv_buf = <<>>
    /\ \A i \in 1..Len(got) :
          /\ got[i] # <<>>
          /\ \A j \in 1..Len(got[i]) : got[i][j].b # LF

\* A line, then a fragment, then the rest of the second line, in three reads:
\* two lines and nothing left buffered.
TwoLinesFromThreeReads ==
    /\ Bytes(fed) = <<"a", LF, "b", "a", LF>>
    /\ events = 3
    /\ Len(got) = 2
    /\ Bytes(got[2]) = <<"b", "a">>
    /\ Len(ev.lines) = 1
    /\ recv_buf = <<>>
    /\ wire = <<>>


(***************************************************************************)
(* C14: read error clears the window.  When the reader's read raises on an *)
(* open link, then at the reader's next suspension the handle is closed    *)
(* and discarded, the pending window is empty and the reader is back at    *)
(* the top of its loop.                                                    *)
(***************************************************************************)
ReadErrorClearsWindow ==
    [][ev'.kind = "read_error" =>
          /\ serial' = "None"
          /\ pending' = <<>>
          /\ rpc' = "top"]_vars

(***************************************************************************)
(* C16: send failure is client loss.  When the send of a line to the       *)
(* installed client fails, no client is installed afterwards.              *)
(***************************************************************************)
SendFailureClearsSession ==
    [][(/\ ReadStep
        /\ \E i \in 1..Len(ev'.lines) :
              ev'.lines[i].to # 0 /\ ev'.lines[i].sent = <<>>)
       => client' = 0]_vars

(***************************************************************************)
(* C17: accumulator reset on reconnect.  Whenever the link is opened, the  *)
(* inbound accumulator is empty afterwards.                                *)
(***************************************************************************)
AccumulatorResetOnReopen ==
    [][serial # "Open" /\ serial' = "Open" => recv_buf' = <<>>]_vars

(***************************************************************************)
(* C18: write failure is connection loss.  When the write of a command     *)
(* raises, nothing is appended to the pending window or written, the       *)
(* window is empty afterwards and the handle is discarded.                 *)
(***************************************************************************)
WriteFailureIsConnectionLoss ==
    [][ev'.kind = "write_error" =>
          /\ txlog' = txlog
          /\ pending' = <<>>
          /\ serial' = "None"]_vars

(***************************************************************************)
(* C19: ensure_serial never hands out a faulted handle.  When a write has  *)
(* just raised and the reader next calls ensure_serial and goes on to      *)
(* read, it reads from a handle opened by that call, not from the handle   *)
(* the write raised on.                                                    *)
(***************************************************************************)
FaultedHandleNeverReused ==
    [][ev.kind = "write_error" /\ ev'.kind \in {"read", "read_error"}
          => serial # "Open"]_vars


(***************************************************************************)
(* C13: reconnect.  A step that calls ensure_serial is a step of the       *)
(* handler receiving a frame, of the reader at the top of its loop, or of  *)
(* the watchdog.                                                           *)
(***************************************************************************)
EnsureStep == HandlerRecv \/ ReaderTop \/ Watchdog

\* C13 as stated: while the device is unavailable every call of
\* ensure_serial returns false and leaves the link not open, and the loops go
\* on; once it is available the next call opens the link; from any moment
\* at which the device is available the link is eventually open unless the
\* device goes away again.
ReconnectWheneverUnavailable ==
    /\ [][EnsureStep =>
            IF ~devAvail
            THEN /\ serial' # "Open"
                 /\ rpc' = "top"
                 /\ client' = client
                 /\ FrameStep => ev'.kind = "nolink"
            ELSE serial' = "Open"]_vars
    /\ (devAvail ~> (serial = "Open" \/ ~devAvail))

\* C13 for calls made while the link is not open: while the device is
\* unavailable such a call returns false and leaves the link not open, the
\* reader stays in its loop and the handler keeps its client and goes on to
\* the error frame; once the device is available such a call opens a working
\* link; from any moment at which the device is available the link is
\* eventually open and working unless the device goes away again, and it
\* then stays so for as long as the device stays.
ReconnectWhenNotOpen ==
    /\ [][EnsureStep /\ serial # "Open" =>
            IF ~devAvail
            THEN /\ serial' = "None"
                 /\ rpc' = "top"
                 /\ client' = client
                 /\ FrameStep => ev'.kind = "nolink" /\ hpc' = "send_err"
            ELSE /\ serial' = "Open"
                 /\ linkOk']_vars
    /\ (devAvail ~> ((serial = "Open" /\ linkOk) \/ ~devAvail))
    /\ [][serial = "Open" /\ linkOk /\ devAvail' => serial' = "Open" /\ linkOk']_vars

\* A frame was dropped because ensure_serial failed, and the link has been
\* opened since and works.
ReopenedAfterFailedCall ==
    /\ dropped # {}
    /\ serial = "Open"
    /\ linkOk
    /\ devAvail


(***************************************************************************)
(* C15: client disconnection always releases the session.  Whenever the    *)
(* peer of the installed client is gone, eventually no client is installed *)
(* and the pending window is empty, whatever the handler is doing.         *)
(***************************************************************************)
DisconnectReleasesSession ==
    (client # 0 /\ ~wsOpen) ~> (client = 0 /\ pending = <<>>)


(***************************************************************************)
(* C20: admission is backpressure that ends.  In steady operation the      *)
(* handler does not stay in the admission loop for ever, and it leaves the *)
(* loop only by writing the command it holds there to the device.  Every   *)
(* frame of Frames is shorter, normalized, than MAX_PENDING.               *)
(***************************************************************************)
AdmissionEnds ==
    /\ \A f \in Frames : Normalize(f).n < MAX_PENDING
    /\ (hpc = "wait") ~> (hpc # "wait")
    /\ [][hpc = "wait" /\ hpc' # "wait" =>
            /\ ev'.kind = "write"
            /\ ev'.id = rawId
            /\ txlog' = Append(txlog, [id |-> rawId, len |-> raw.n, conn |-> client])
            /\ client' = client]_vars

\* The handler holds the second command of the session in the admission loop
\* while the first, written, is not yet acknowledged.
SecondCommandWaits ==
    /\ hpc = "wait"
    /\ rawId = 2
    /\ wsOpen
    /\ Len(pending) = 1
    /\ TxIds = {1}

=============================================================================
